---- MODULE Spec2Model ----
(***************************************************************************)
(* A model of neomura-c-tool-aseprite: one run of the command-line tool    *)
(* (src/index.ts), the frame deriver and the tag expander it contains, and *)
(* the identifier normaliser it calls.                                     *)
(*                                                                         *)
(* Numbers are JavaScript numbers.  Every value the model handles is an    *)
(* integer far below 2^53 except the two offsets, which are halves of      *)
(* integers: the model keeps an offset as the number of HALF pixels        *)
(* (xOffset2 = 2 * xOffset), so every comparison stays exact.              *)
(* Text is a sequence of one-character strings.                            *)
(***************************************************************************)
EXTENDS Integers, Sequences, FiniteSets, TLC

VARIABLES
  pc,                    \* position of the runMain callback
  commandLineArguments,  \* the parsed command line
  data,                  \* JSON.parse(dataJson), or NoData
  png,                   \* the decoded sheet, or NoPng
  frames,                \* the derived frames
  tags,                  \* the resolved tags
  header,                \* the header text, as its parts
  source,                \* the source text, as its parts
  files,                 \* the output files written so far: name -> content
  temporaryDirectory,    \* "absent", "present" or "removed"
  err,                   \* the value thrown inside the try block
  trace,                 \* the steps this run has performed, in order
  unit,                  \* component harness: the input under test
  result                 \* component harness: what the component returned

vars == <<pc, commandLineArguments, data, png, frames, tags, header, source,
          files, temporaryDirectory, err, trace, unit, result>>

runVars == <<pc, commandLineArguments, data, png, frames, tags, header, source,
             files, temporaryDirectory, err, trace>>

(***************************************************************************)
(* Bounds of the model.                                                    *)
(***************************************************************************)
MaxFrames == 2   \* frames in a data file
MaxTags == 1     \* tags in a data file
MaxIndex == 2    \* largest from/to of a tag given to the tag expander alone
MaxLen == 4      \* characters of a text given to the identifier normaliser
MaxCleanupFrames == 1   \* frames in a data file of a run followed to its clean-up

(***************************************************************************)
(* Limits the program states.                                              *)
(***************************************************************************)
WidthLimit == 65535
HeightLimit == 65535
OffsetUpperLimit == 32767
OffsetLowerLimit == -32768
FrameCountLimit == 65535
TagDurationLimit == 65535
MillisecondsPerSecond == 1000
ByteMax == 255

Range(s) == {s[i] : i \in 1..Len(s)}

SeqsUpTo(S, n) == UNION {[1..k -> S] : k \in 0..n}

(***************************************************************************)
(* Thrown values.  Every error has the same shape; subject is the 1-based  *)
(* frame number or the tag's name, value the offending number.             *)
(***************************************************************************)
NoError == [kind |-> "none", what |-> "", subject |-> 0, value |-> 0]

Thrown(kind, what, subject, value) ==
  [kind |-> kind, what |-> what, subject |-> subject, value |-> value]

Returned(v) == [ok |-> TRUE, value |-> v, error |-> NoError]

Threw(e) == [ok |-> FALSE, value |-> <<>>, error |-> e]

(***************************************************************************)
(* The frame deriver: the callback of Object.keys(data.frames).map.        *)
(***************************************************************************)
\* png.data[i] for a zero-based i; outside the raster JavaScript reads
\* undefined, which every use below turns into NaN and the Buffer into 0.
pngByte(sheet, i) ==
  IF i >= 0 /\ i < Len(sheet.data) THEN sheet.data[i + 1] ELSE -1

pixelOffset(frame, sheet, x, y) ==
  (y + frame.frame.y) * sheet.width * 4 + (x + frame.frame.x) * 4

\* Math.floor(raw * (alpha / 255)) stored into a Buffer.
premultiply(raw, alpha) ==
  IF raw < 0 \/ alpha < 0 THEN 0 ELSE (raw * alpha) \div ByteMax

invertAlpha(alpha) == IF alpha < 0 THEN 0 ELSE ByteMax - alpha

\* rgba[i] = v; a Buffer ignores a write past its end.
bufferSet(rgba, i, v) ==
  IF i >= 0 /\ i < Len(rgba) THEN [rgba EXCEPT ![i + 1] = v] ELSE rgba

\* The body of the two pixel loops for the pixel (x, y) of the frame.
writePixel(rgba, frame, sheet, x, y) ==
  LET alpha == pngByte(sheet, pixelOffset(frame, sheet, x, y) + 3)
      base == y * frame.frame.w + x
      c0 == bufferSet(rgba, base + 0,
              premultiply(pngByte(sheet, pixelOffset(frame, sheet, x, y) + 0), alpha))
      c1 == bufferSet(c0, base + 1,
              premultiply(pngByte(sheet, pixelOffset(frame, sheet, x, y) + 1), alpha))
      c2 == bufferSet(c1, base + 2,
              premultiply(pngByte(sheet, pixelOffset(frame, sheet, x, y) + 2), alpha))
  IN bufferSet(c2, base + 3, invertAlpha(alpha))

RECURSIVE pixelLoop(_, _, _, _)
\* for (y ...) for (x ...) in row-major order, n the number of the next pixel.
pixelLoop(rgba, frame, sheet, n) ==
  IF n >= frame.frame.w * frame.frame.h THEN rgba
  ELSE pixelLoop(writePixel(rgba, frame, sheet, n % frame.frame.w, n \div frame.frame.w),
                 frame, sheet, n + 1)

\* The local buffer `rgba` when the loops end: Buffer.alloc(w * h * 4), filled.
rgbaBuffer(frame, sheet) ==
  pixelLoop([i \in 1..(frame.frame.w * frame.frame.h * 4) |-> 0], frame, sheet, 0)

\* What the callback returns as the frame's rgba.
returnedRgba(frame, sheet) == sheet.data

xOffset2(frame) == 2 * frame.spriteSourceSize.x - frame.sourceSize.w

yOffset2(frame) == 2 * frame.spriteSourceSize.y - frame.sourceSize.h

\* A slip the duration check is probed with: the refresh rate is left out.
durationIncompatibleIgnoringRate(frame, refreshRate) ==
  frame.duration % MillisecondsPerSecond # 0

durationIncompatible(frame, refreshRate) ==
  (frame.duration * refreshRate) % MillisecondsPerSecond # 0

durationTicks(frame, refreshRate) ==
  (frame.duration * refreshRate) \div MillisecondsPerSecond

tooWide(frame) == frame.frame.w > WidthLimit

tooTall(frame) == frame.frame.h > HeightLimit

xOffsetAboveLimit(frame) == xOffset2(frame) > 2 * OffsetUpperLimit

xOffsetBelowLimit(frame) == xOffset2(frame) < 2 * OffsetLowerLimit

yOffsetAboveLimit(frame) == yOffset2(frame) > 2 * OffsetUpperLimit

yOffsetBelowLimit(frame) == yOffset2(frame) < 2 * OffsetLowerLimit

\* index is zero-based, as in the source; errors report index + 1.
deriveFrame(frame, index, sheet, refreshRate) ==
  IF tooWide(frame)
    THEN Threw(Thrown("GeometryLimitExceeded", "width", index + 1, frame.frame.w))
  ELSE IF tooTall(frame)
    THEN Threw(Thrown("GeometryLimitExceeded", "height", index + 1, frame.frame.h))
  ELSE IF xOffsetAboveLimit(frame)
    THEN Threw(Thrown("GeometryLimitExceeded", "x offset", index + 1, xOffset2(frame)))
  ELSE IF xOffsetBelowLimit(frame)
    THEN Threw(Thrown("GeometryLimitExceeded", "x offset", index + 1, xOffset2(frame)))
  ELSE IF yOffsetAboveLimit(frame)
    THEN Threw(Thrown("GeometryLimitExceeded", "y offset", index + 1, yOffset2(frame)))
  ELSE IF yOffsetBelowLimit(frame)
    THEN Threw(Thrown("GeometryLimitExceeded", "y offset", index + 1, yOffset2(frame)))
  ELSE IF durationIncompatible(frame, refreshRate)
    THEN Threw(Thrown("DurationIncompatible", "duration", index + 1, frame.duration))
  ELSE Returned([width |-> frame.frame.w,
                 height |-> frame.frame.h,
                 xOffset2 |-> xOffset2(frame),
                 yOffset2 |-> yOffset2(frame),
                 duration |-> durationTicks(frame, refreshRate),
                 rgba |-> returnedRgba(frame, sheet)])

RECURSIVE mapFramesReportingLast(_, _, _, _, _)
\* A slip the order of the frames' errors is probed with: the map goes on past
\* a frame that fails, and the last failure is the one reported.
mapFramesReportingLast(rawFrames, sheet, refreshRate, index, acc) ==
  IF index >= Len(rawFrames) THEN Returned(acc)
  ELSE LET r == deriveFrame(rawFrames[index + 1], index, sheet, refreshRate)
           rest == mapFramesReportingLast(rawFrames, sheet, refreshRate, index + 1,
                                          IF r.ok THEN Append(acc, r.value) ELSE acc)
       IN IF ~rest.ok THEN rest
          ELSE IF r.ok THEN rest
          ELSE r

RECURSIVE mapFrames(_, _, _, _, _)
\* Array.prototype.map over the frames: the first throw ends the map.
mapFrames(rawFrames, sheet, refreshRate, index, acc) ==
  IF index >= Len(rawFrames) THEN Returned(acc)
  ELSE LET r == deriveFrame(rawFrames[index + 1], index, sheet, refreshRate)
       IN IF r.ok
            THEN mapFrames(rawFrames, sheet, refreshRate, index + 1, Append(acc, r.value))
            ELSE r

deriveFrames(rawFrames, sheet, refreshRate) ==
  LET r == mapFrames(rawFrames, sheet, refreshRate, 0, <<>>)
  IN IF ~r.ok THEN r
     ELSE IF Len(r.value) > FrameCountLimit
       THEN Threw(Thrown("FrameCountLimitExceeded", "frame count", 0, Len(r.value)))
     ELSE r

(***************************************************************************)
(* The tag expander: the callback of data.meta.frameTags.map.              *)
(***************************************************************************)
RECURSIVE ascending(_, _, _, _)
\* for (index = from; index <= to; index++), or index < to when exclusive.
ascending(index, to, exclusive, indices) ==
  IF (IF exclusive THEN index < to ELSE index <= to)
    THEN ascending(index + 1, to, exclusive, Append(indices, index))
    ELSE indices

RECURSIVE descending(_, _, _, _)
\* for (index = to; index >= from; index--), or index > from when exclusive.
descending(index, from, exclusive, indices) ==
  IF (IF exclusive THEN index > from ELSE index >= from)
    THEN descending(index - 1, from, exclusive, Append(indices, index))
    ELSE indices

\* A slip the index sequences are checked against: the way back includes from.
pingpongIndicesRepeatingFrom(tag) ==
  descending(tag.to, tag.from, FALSE, ascending(tag.from, tag.to, TRUE, <<>>))

pingpongIndices(tag) ==
  descending(tag.to, tag.from, TRUE, ascending(tag.from, tag.to, TRUE, <<>>))

\* The switch over tag.direction; only called for an implemented direction.
tagIndices(tag) ==
  CASE tag.direction = "forward" -> ascending(tag.from, tag.to, FALSE, <<>>)
    [] tag.direction = "reverse" -> descending(tag.to, tag.from, FALSE, <<>>)
    [] tag.direction = "pingpong" -> pingpongIndices(tag)

implementedDirection(direction) ==
  direction \in {"forward", "reverse", "pingpong"}

RECURSIVE sumDurationsSkippingMissing(_, _, _, _)
\* A slip the lookup of a tag's frames is probed with: an index outside the
\* array adds nothing, as frames[index]?.duration ?? 0 would.
sumDurationsSkippingMissing(indices, derived, i, duration) ==
  IF i > Len(indices) THEN Returned(duration)
  ELSE IF indices[i] < 0 \/ indices[i] >= Len(derived)
    THEN sumDurationsSkippingMissing(indices, derived, i + 1, duration)
  ELSE sumDurationsSkippingMissing(indices, derived, i + 1,
                                   duration + derived[indices[i] + 1].duration)

RECURSIVE sumDurations(_, _, _, _)
\* for (const index of indices) duration += frames[index].duration; frames[index]
\* is undefined outside the array and reading its duration throws a TypeError.
sumDurations(indices, derived, i, duration) ==
  IF i > Len(indices) THEN Returned(duration)
  ELSE IF indices[i] < 0 \/ indices[i] >= Len(derived)
    THEN Threw(Thrown("TypeError", "frames[index] is undefined", 0, indices[i]))
  ELSE sumDurations(indices, derived, i + 1, duration + derived[indices[i] + 1].duration)

\* A slip the limit is checked against: the limit itself is refused.
overTagDurationLimitInclusive(duration) == duration >= TagDurationLimit

overTagDurationLimit(duration) == duration > TagDurationLimit

expandTag(tag, derived) ==
  IF ~implementedDirection(tag.direction)
    THEN Threw(Thrown("UnimplementedDirection", tag.direction, tag.name, 0))
  ELSE LET indices == tagIndices(tag)
           total == sumDurations(indices, derived, 1, 0)
       IN IF ~total.ok THEN total
          ELSE IF overTagDurationLimit(total.value)
            THEN Threw(Thrown("TagDurationLimitExceeded", "duration", tag.name, total.value))
          ELSE Returned([name |-> tag.name, indices |-> indices, duration |-> total.value])

RECURSIVE mapTags(_, _, _, _)
mapTags(rawTags, derived, i, acc) ==
  IF i > Len(rawTags) THEN Returned(acc)
  ELSE LET r == expandTag(rawTags[i], derived)
       IN IF r.ok THEN mapTags(rawTags, derived, i + 1, Append(acc, r.value)) ELSE r

expandTags(rawTags, derived) == mapTags(rawTags, derived, 1, <<>>)

(***************************************************************************)
(* The identifier normaliser, convertFileNameToIdentifier.  Its source is  *)
(* not among the files at hand (only its tests are): it is modelled from   *)
(* its description, as a scan over the characters with the states "start"  *)
(* (no letter precedes), "lower" (a lowercase letter precedes) and "upper" *)
(* (an uppercase letter precedes).                                         *)
(***************************************************************************)
LowercaseLetters ==
  <<"a", "b", "c", "d", "e", "f", "g", "h", "i", "j", "k", "l", "m",
    "n", "o", "p", "q", "r", "s", "t", "u", "v", "w", "x", "y", "z">>

UppercaseLetters ==
  <<"A", "B", "C", "D", "E", "F", "G", "H", "I", "J", "K", "L", "M",
    "N", "O", "P", "Q", "R", "S", "T", "U", "V", "W", "X", "Y", "Z">>

DigitCharacters == {"0", "1", "2", "3", "4", "5", "6", "7", "8", "9"}

SeparatorCharacters == {" ", "\t", "\n", "\r", "_", "-"}

isLowercase(c) == c \in Range(LowercaseLetters)

isUppercase(c) == c \in Range(UppercaseLetters)

isSeparator(c) == c \in SeparatorCharacters

toLowerCase(c) ==
  IF isUppercase(c)
    THEN LowercaseLetters[CHOOSE i \in 1..Len(UppercaseLetters) : UppercaseLetters[i] = c]
    ELSE c

\* A slip idempotence is probed with: only a word's first letter is lowered.
lowercaseFirstLetter(word) ==
  [i \in 1..Len(word) |-> IF i = 1 THEN toLowerCase(word[i]) ELSE word[i]]

lowercaseWord(word) == [i \in 1..Len(word) |-> toLowerCase(word[i])]

\* The word in progress joins the words found, unless it is empty.
flushWord(words, word) == IF word = <<>> THEN words ELSE Append(words, word)

\* A slip the boundaries are probed with: the acronym rule is left out.
boundaryBeforeUppercaseCamelOnly(text, i, state) == state = "lower"

\* Whether a word boundary goes before the uppercase letter text[i], given the
\* state the scan is in.
boundaryBeforeUppercase(text, i, state) ==
  \/ state = "lower"
  \/ state = "upper" /\ i < Len(text) /\ isLowercase(text[i + 1])

RECURSIVE scanWords(_, _, _, _, _)
scanWords(text, i, state, word, words) ==
  IF i > Len(text) THEN flushWord(words, word)
  ELSE IF isSeparator(text[i])
    THEN scanWords(text, i + 1, "start", <<>>, flushWord(words, word))
  ELSE IF isUppercase(text[i])
    THEN IF boundaryBeforeUppercase(text, i, state)
           THEN scanWords(text, i + 1, "upper", <<text[i]>>, flushWord(words, word))
           ELSE scanWords(text, i + 1, "upper", Append(word, text[i]), words)
  ELSE IF isLowercase(text[i])
    THEN scanWords(text, i + 1, "lower", Append(word, text[i]), words)
  ELSE scanWords(text, i + 1, "start", Append(word, text[i]), words)

RECURSIVE joinWords(_, _)
\* words.join("_")
joinWords(words, i) ==
  IF i > Len(words) THEN <<>>
  ELSE IF i = Len(words) THEN words[i]
  ELSE words[i] \o <<"_">> \o joinWords(words, i + 1)

identifierWords(text) ==
  LET words == scanWords(text, 1, "start", <<>>, <<>>)
  IN [i \in 1..Len(words) |-> lowercaseWord(words[i])]

convertFileNameToIdentifier(text) == joinWords(identifierWords(text), 1)

(***************************************************************************)
(* Paths, as node's path module takes them apart.                          *)
(***************************************************************************)
Path(dir, name, ext) == [dir |-> dir, name |-> name, ext |-> ext]

\* parse(path).name
parsedName(path) == path.name

basename(path) == path.name \o path.ext

dirname(path) == path.dir

\* relative(from, to), kept as the pair it is computed from.
relative(from, to) == [from |-> from, to |-> to]

\* `${path}${suffix}`
withSuffix(path, suffix) == Path(path.dir, path.name, path.ext \o suffix)

(***************************************************************************)
(* The code emitter: the two template literals, as their parts.            *)
(***************************************************************************)
spriteName(arguments) ==
  convertFileNameToIdentifier(parsedName(arguments.asepriteFile))

\* The name a tag's symbols are given in the header and in the source.
tagSymbol(tag) == tag.name

headerText(arguments, derived, resolved) ==
  [includes |-> <<relative(dirname(arguments.asepriteFile), arguments.neomuraHeaderFile),
                  relative(dirname(arguments.asepriteFile), arguments.neomuraSpritesHeaderFile)>>,
   sprite |-> spriteName(arguments),
   animations |-> [i \in 1..Len(resolved) |-> tagSymbol(resolved[i])]]

\* The file the source's #include names.
sourceInclude(arguments) == basename(arguments.asepriteFile) \o <<".", "h">>

sourceText(arguments, derived, resolved) ==
  [include |-> sourceInclude(arguments),
   sprite |-> spriteName(arguments),
   frameCount |-> Len(derived),
   widths |-> [i \in 1..Len(derived) |-> derived[i].width],
   heights |-> [i \in 1..Len(derived) |-> derived[i].height],
   xOffsets2 |-> [i \in 1..Len(derived) |-> derived[i].xOffset2],
   yOffsets2 |-> [i \in 1..Len(derived) |-> derived[i].yOffset2],
   durations |-> [i \in 1..Len(derived) |-> derived[i].duration],
   rgba |-> [i \in 1..Len(derived) |-> derived[i].rgba],
   indices |-> [i \in 1..Len(resolved) |->
                  [symbol |-> tagSymbol(resolved[i]) \o <<"_", "i", "n", "d", "i", "c", "e", "s">>,
                   length |-> Len(resolved[i].indices),
                   values |-> resolved[i].indices]],
   animations |-> [i \in 1..Len(resolved) |->
                     [symbol |-> tagSymbol(resolved[i]),
                      sprite |-> spriteName(arguments),
                      indices |-> tagSymbol(resolved[i]) \o <<"_", "i", "n", "d", "i", "c", "e", "s">>,
                      length |-> Len(resolved[i].indices),
                      duration |-> resolved[i].duration]]]

(***************************************************************************)
(* The inputs a run is given: command lines, data files and sheets.        *)
(***************************************************************************)
CommandLines ==
  {[asepriteFile |-> Path("in", <<"W", "a", "l", "k", " ", "C", "y", "c", "l", "e">>, <<".", "a", "s", "e">>),
    neomuraHeaderFile |-> "lib/neomura.h",
    neomuraSpritesHeaderFile |-> "lib/sprites.h",
    output |-> Path("out", <<"f", "i", "l", "e">>, <<>>),
    refreshRate |-> 60],
   [asepriteFile |-> Path(".", <<"s", "p", "r", "i", "t", "e">>, <<".", "a", "s", "e">>),
    neomuraHeaderFile |-> "neomura.h",
    neomuraSpritesHeaderFile |-> "sprites.h",
    output |-> Path("gen", <<"s", "p", "r", "i", "t", "e", ".", "a", "s", "e">>, <<>>),
    refreshRate |-> 1000],
   [asepriteFile |-> Path("art", <<"H", "e", "r", "o", "-", "I", "d", "l", "e">>, <<".", "a", "s", "e">>),
    neomuraHeaderFile |-> "lib/neomura.h",
    neomuraSpritesHeaderFile |-> "lib/sprites.h",
    output |-> Path("art", <<"H", "e", "r", "o", "-", "I", "d", "l", "e">>, <<>>),
    refreshRate |-> 2000]}

RawFrame(x, y, w, h, sx, sy, sw, sh, duration) ==
  [frame |-> [x |-> x, y |-> y, w |-> w, h |-> h],
   spriteSourceSize |-> [x |-> sx, y |-> sy],
   sourceSize |-> [w |-> sw, h |-> sh],
   duration |-> duration]

\* Frames a data file may hold: two small ones (the second on a canvas of odd
\* size), one with every quantity at its limit, one past the limit for the
\* width, for the y offset and (at 60 hertz) for the duration, and four that
\* fail several checks at once: all of them, all from the height on, all from
\* the x offset on, and the y offset with the duration.
RawFrames ==
  {RawFrame(0, 0, 1, 1, 0, 0, 2, 2, 1000),
   RawFrame(0, 0, 2, 1, 1, 0, 3, 1, 50),
   RawFrame(0, 0, WidthLimit, 1, OffsetUpperLimit, 0, 0, -2 * OffsetLowerLimit, 65535),
   RawFrame(0, 0, WidthLimit + 1, 1, 0, 0, 2, 2, 1000),
   RawFrame(0, 0, 1, 1, 0, 0, 2, 1 - 2 * OffsetLowerLimit, 1000),
   RawFrame(0, 0, 1, 1, 0, 0, 2, 2, 51),
   RawFrame(0, 0, WidthLimit + 1, HeightLimit + 1,
            OffsetUpperLimit + 1, OffsetUpperLimit + 1, 0, 0, 51),
   RawFrame(0, 0, 1, HeightLimit + 1, 0, 0, 2 - 2 * OffsetLowerLimit, 2 - 2 * OffsetLowerLimit, 51),
   RawFrame(0, 0, 1, 1, OffsetUpperLimit + 1, 0, 0, 2 - 2 * OffsetLowerLimit, 51),
   RawFrame(0, 0, 1, 1, 0, OffsetUpperLimit + 1, 2, 0, 51)}

RawTag(name, from, to, direction) ==
  [name |-> name, from |-> from, to |-> to, direction |-> direction]

\* Tags a data file may hold; the fifth reaches past the last frame and the
\* sixth has a direction the switch does not know.
RawTags ==
  {RawTag(<<"i", "d", "l", "e">>, 0, 0, "forward"),
   RawTag(<<"W", "a", "l", "k", " ", "C", "y", "c", "l", "e">>, 0, 1, "pingpong"),
   RawTag(<<"r", "u", "n">>, 0, 1, "reverse"),
   RawTag(<<"b", "l", "i", "n", "k">>, 0, 0, "pingpong"),
   RawTag(<<"l", "o", "n", "g">>, 0, MaxFrames, "forward"),
   RawTag(<<"s", "p", "i", "n">>, 0, 0, "pingpong_reverse")}

DataFiles ==
  {[frames |-> f, meta |-> [frameTags |-> t]] :
     f \in SeqsUpTo(RawFrames, MaxFrames), t \in SeqsUpTo(RawTags, MaxTags)}

\* Decoded sheets: width, height and the RGBA bytes, row-major.
Sheets ==
  {[width |-> 2, height |-> 1, data |-> <<255, 128, 0, 255, 200, 100, 50, 128>>],
   [width |-> 2, height |-> 1, data |-> <<10, 20, 30, 0, 255, 255, 255, 255>>]}

NoData == [frames |-> <<>>, meta |-> [frameTags |-> <<>>]]

NoPng == [width |-> 0, height |-> 0, data |-> <<>>]

NoText == [none |-> TRUE]

NotWritten == [none |-> TRUE]

(***************************************************************************)
(* One run: the callback given to runMain, from the end of command-line    *)
(* parsing on.  Each await is a step; the synchronous stretch between the  *)
(* PNG's parsing and mkdir is cut at its three stages.                     *)
(***************************************************************************)
NoUnit == [component |-> "none"]

NotRun == [ok |-> FALSE, value |-> <<>>, error |-> NoError]

Init ==
  /\ pc = "start"
  /\ commandLineArguments \in CommandLines
  /\ data = NoData
  /\ png = NoPng
  /\ frames = <<>>
  /\ tags = <<>>
  /\ header = NoText
  /\ source = NoText
  /\ files = [h |-> NotWritten, c |-> NotWritten]
  /\ temporaryDirectory = "absent"
  /\ err = NoError
  /\ trace = <<>>
  /\ unit = NoUnit
  /\ result = NotRun

\* A slip the clean-up is probed with: the removal follows the writes inside the
\* try block instead of standing in a finally block, so a throw passes it by.
throwPastRemoval(e, step) ==
  /\ err' = e
  /\ pc' = "done"
  /\ trace' = Append(trace, step)

\* A throw inside the try block: control goes to the finally block.
throw(e, step) ==
  /\ err' = e
  /\ pc' = "finally"
  /\ trace' = Append(trace, step)

\* A slip the order of the steps is probed with: the read of the data file and
\* the parsing of the sheet are not awaited, so the frames are gone through as
\* soon as aseprite has closed.
gotoWithoutAwaitingFiles(next, step) ==
  /\ pc' = IF next = "readFile" THEN "frames" ELSE next
  /\ trace' = Append(trace, step)
  /\ err' = err

\* A step that completes and moves on.
goto(next, step) ==
  /\ pc' = next
  /\ trace' = Append(trace, step)
  /\ err' = err

\* spawn(...): the child process starts.
Spawn ==
  /\ pc = "start"
  /\ goto("aseprite", "spawn")
  /\ UNCHANGED <<commandLineArguments, data, png, frames, tags, header, source,
                 files, temporaryDirectory, unit, result>>

\* childProcess.on("error", reject)
ChildError ==
  /\ pc = "aseprite"
  /\ throw(Thrown("SpawnError", "", 0, 0), "error")
  /\ UNCHANGED <<commandLineArguments, data, png, frames, tags, header, source,
                 files, temporaryDirectory, unit, result>>

\* childProcess.on("close", ...), then the check of exitCode and stderr.
\* Aseprite has created the temporary directory for its two files by then.
ChildClose ==
  /\ pc = "aseprite"
  /\ \E exitCode \in {0, 1}, stderrEmpty \in BOOLEAN :
       IF exitCode # 0 \/ ~stderrEmpty
         THEN throw(Thrown("AsepriteFailed", "", 0, exitCode), "close")
         ELSE goto("readFile", "close")
  /\ temporaryDirectory' = "present"
  /\ UNCHANGED <<commandLineArguments, data, png, frames, tags, header, source,
                 files, unit, result>>

\* promises.readFile(dataFile) rejects.
ReadFileFails ==
  /\ pc = "readFile"
  /\ throw(Thrown("ReadError", "", 0, 0), "readFile")
  /\ UNCHANGED <<commandLineArguments, data, png, frames, tags, header, source,
                 files, temporaryDirectory, unit, result>>

\* promises.readFile(dataFile) gives the empty text.
ReadFileEmpty ==
  /\ pc = "readFile"
  /\ throw(Thrown("EmptyDataFile", "", 0, 0), "readFile")
  /\ UNCHANGED <<commandLineArguments, data, png, frames, tags, header, source,
                 files, temporaryDirectory, unit, result>>

\* promises.readFile(dataFile) gives a document, which JSON.parse reads.
ReadFile ==
  /\ pc = "readFile"
  /\ \E d \in DataFiles : data' = d
  /\ goto("parsePng", "readFile")
  /\ UNCHANGED <<commandLineArguments, png, frames, tags, header, source,
                 files, temporaryDirectory, unit, result>>

\* The PNG stream emits "error".
ParsePngFails ==
  /\ pc = "parsePng"
  /\ throw(Thrown("PngError", "", 0, 0), "parsePng")
  /\ UNCHANGED <<commandLineArguments, data, png, frames, tags, header, source,
                 files, temporaryDirectory, unit, result>>

\* The PNG stream emits "parsed".
ParsePng ==
  /\ pc = "parsePng"
  /\ \E sheet \in Sheets : png' = sheet
  /\ goto("frames", "parsePng")
  /\ UNCHANGED <<commandLineArguments, data, frames, tags, header, source,
                 files, temporaryDirectory, unit, result>>

\* const frames = Object.keys(data.frames).map(...), and the frame count check.
DeriveFrames ==
  /\ pc = "frames"
  /\ LET r == deriveFrames(data.frames, png, commandLineArguments.refreshRate)
     IN IF r.ok
          THEN frames' = r.value /\ goto("tags", "frames")
          ELSE frames' = frames /\ throw(r.error, "frames")
  /\ UNCHANGED <<commandLineArguments, data, png, tags, header, source,
                 files, temporaryDirectory, unit, result>>

\* const tags = data.meta.frameTags.map(...)
ExpandTags ==
  /\ pc = "tags"
  /\ LET r == expandTags(data.meta.frameTags, frames)
     IN IF r.ok
          THEN tags' = r.value /\ goto("emit", "tags")
          ELSE tags' = tags /\ throw(r.error, "tags")
  /\ UNCHANGED <<commandLineArguments, data, png, frames, header, source,
                 files, temporaryDirectory, unit, result>>

\* const name, const header, const source
Emit ==
  /\ pc = "emit"
  /\ header' = headerText(commandLineArguments, frames, tags)
  /\ source' = sourceText(commandLineArguments, frames, tags)
  /\ goto("mkdir", "emit")
  /\ UNCHANGED <<commandLineArguments, data, png, frames, tags,
                 files, temporaryDirectory, unit, result>>

\* promises.mkdir(dirname(output), { recursive: true })
Mkdir ==
  /\ pc = "mkdir"
  /\ \/ goto("writeHeader", "mkdir")
     \/ throw(Thrown("MkdirError", "", 0, 0), "mkdir")
  /\ UNCHANGED <<commandLineArguments, data, png, frames, tags, header, source,
                 files, temporaryDirectory, unit, result>>

\* A slip the order of the writes is probed with: the header is also written as
\* soon as the frames are derived.
atWriteHeaderOrTags == pc \in {"writeHeader", "tags"}

\* Whether the run stands at promises.writeFile(headerFile, header).
atWriteHeader == pc = "writeHeader"

\* Whether the run stands at promises.writeFile(sourceFile, source).
atWriteSource == pc = "writeSource"

WriteHeader ==
  /\ atWriteHeader
  /\ files' = [files EXCEPT !.h = [path |-> withSuffix(commandLineArguments.output, <<".", "h">>),
                                   text |-> header]]
  /\ goto("writeSource", "writeHeader")
  /\ UNCHANGED <<commandLineArguments, data, png, frames, tags, header, source,
                 temporaryDirectory, unit, result>>

WriteHeaderFails ==
  /\ atWriteHeader
  /\ throw(Thrown("WriteError", "header", 0, 0), "writeHeader")
  /\ UNCHANGED <<commandLineArguments, data, png, frames, tags, header, source,
                 files, temporaryDirectory, unit, result>>

WriteSource ==
  /\ atWriteSource
  /\ files' = [files EXCEPT !.c = [path |-> withSuffix(commandLineArguments.output, <<".", "c">>),
                                   text |-> source]]
  /\ goto("finally", "writeSource")
  /\ UNCHANGED <<commandLineArguments, data, png, frames, tags, header, source,
                 temporaryDirectory, unit, result>>

WriteSourceFails ==
  /\ atWriteSource
  /\ throw(Thrown("WriteError", "source", 0, 0), "writeSource")
  /\ UNCHANGED <<commandLineArguments, data, png, frames, tags, header, source,
                 files, temporaryDirectory, unit, result>>

\* finally { await promises.rm(temporaryDirectory, { recursive, force }) }
Finally ==
  /\ pc = "finally"
  /\ temporaryDirectory' = "removed"
  /\ goto("done", "rm")
  /\ UNCHANGED <<commandLineArguments, data, png, frames, tags, header, source,
                 files, unit, result>>

Next ==
  \/ Spawn
  \/ ChildError
  \/ ChildClose
  \/ ReadFileFails
  \/ ReadFileEmpty
  \/ ReadFile
  \/ ParsePngFails
  \/ ParsePng
  \/ DeriveFrames
  \/ ExpandTags
  \/ Emit
  \/ Mkdir
  \/ WriteHeader
  \/ WriteHeaderFails
  \/ WriteSource
  \/ WriteSourceFails
  \/ Finally

Spec == Init /\ [][Next]_vars

\* The data files the clean-up is followed on: the finally block reads nothing
\* of the document, so a few frames and one tag at most are enough to take a
\* run through every step and every failure.
cleanupDataFile(d) ==
  Len(d.frames) <= MaxCleanupFrames /\ Len(d.meta.frameTags) <= 1

CleanupNext == Next /\ cleanupDataFile(data')

\* The run under node's event loop: a pending step (the child's close or error
\* event, a file operation's promise, the synchronous stretch that follows it)
\* is eventually taken.
FairSpec == Init /\ [][CleanupNext]_vars /\ WF_vars(CleanupNext)

(***************************************************************************)
(* The normaliser's test table: each row is an input and the identifier    *)
(* the tests expect for it.                                                *)
(***************************************************************************)
scenarios ==
  <<<<<<"t", "e", "s", "t">>,
     <<"t", "e", "s", "t">>>>,
   <<<<"T", "e", "s", "t">>,
     <<"t", "e", "s", "t">>>>,
   <<<<" ", " ", "\n", " ", "\r", " ", "\t", " ", " ", "T", "e", "s", "t", " ", "S", "t", "r", "i", "n", "g", " ", " ", "\n", " ", "\t", " ", "\r", " ", "W", "i", "t", "h", " ", "T", "X", "T", " ", "W", "h", "i", "t", "e", " ", "S", "p", "a", "c", "e", " ", "\t", " ", "\t", " ", "\r", " ", "\n", " ", " ", " ">>,
     <<"t", "e", "s", "t", "_", "s", "t", "r", "i", "n", "g", "_", "w", "i", "t", "h", "_", "t", "x", "t", "_", "w", "h", "i", "t", "e", "_", "s", "p", "a", "c", "e">>>>,
   <<<<"t", "e", "s", "t", "_", "s", "n", "a", "k", "e", "_", "c", "a", "s", "e", "d", "_", "s", "t", "r", "i", "n", "g">>,
     <<"t", "e", "s", "t", "_", "s", "n", "a", "k", "e", "_", "c", "a", "s", "e", "d", "_", "s", "t", "r", "i", "n", "g">>>>,
   <<<<"t", "e", "s", "t", "-", "k", "e", "b", "a", "b", "-", "c", "a", "s", "e", "d", "-", "s", "t", "r", "i", "n", "g">>,
     <<"t", "e", "s", "t", "_", "k", "e", "b", "a", "b", "_", "c", "a", "s", "e", "d", "_", "s", "t", "r", "i", "n", "g">>>>,
   <<<<"T", "E", "S", "T", "_", "S", "N", "A", "K", "E", "_", "C", "A", "S", "E", "D", "_", "S", "T", "R", "I", "N", "G">>,
     <<"t", "e", "s", "t", "_", "s", "n", "a", "k", "e", "_", "c", "a", "s", "e", "d", "_", "s", "t", "r", "i", "n", "g">>>>,
   <<<<"T", "E", "S", "T", "-", "K", "E", "B", "A", "B", "-", "C", "A", "S", "E", "D", "-", "S", "T", "R", "I", "N", "G">>,
     <<"t", "e", "s", "t", "_", "k", "e", "b", "a", "b", "_", "c", "a", "s", "e", "d", "_", "s", "t", "r", "i", "n", "g">>>>,
   <<<<"_", "t", "e", "s", "t", "_", "s", "n", "a", "k", "e", "_", "c", "a", "s", "e", "d", "_", "s", "t", "r", "i", "n", "g">>,
     <<"t", "e", "s", "t", "_", "s", "n", "a", "k", "e", "_", "c", "a", "s", "e", "d", "_", "s", "t", "r", "i", "n", "g">>>>,
   <<<<"-", "t", "e", "s", "t", "-", "k", "e", "b", "a", "b", "-", "c", "a", "s", "e", "d", "-", "s", "t", "r", "i", "n", "g">>,
     <<"t", "e", "s", "t", "_", "k", "e", "b", "a", "b", "_", "c", "a", "s", "e", "d", "_", "s", "t", "r", "i", "n", "g">>>>,
   <<<<"T", "e", "s", "t", "P", "a", "s", "c", "a", "l", "C", "a", "s", "e", "d", "T", "X", "T", "S", "t", "r", "i", "n", "g">>,
     <<"t", "e", "s", "t", "_", "p", "a", "s", "c", "a", "l", "_", "c", "a", "s", "e", "d", "_", "t", "x", "t", "_", "s", "t", "r", "i", "n", "g">>>>,
   <<<<"t", "e", "s", "t", "C", "a", "m", "e", "l", "C", "a", "s", "e", "d", "T", "X", "T", "S", "t", "r", "i", "n", "g">>,
     <<"t", "e", "s", "t", "_", "c", "a", "m", "e", "l", "_", "c", "a", "s", "e", "d", "_", "t", "x", "t", "_", "s", "t", "r", "i", "n", "g">>>>,
   <<<<"T", "e", "s", "t", "P", "a", "s", "c", "a", "l", "C", "a", "s", "e", "d", "S", "t", "r", "i", "n", "g", "T", "X", "T">>,
     <<"t", "e", "s", "t", "_", "p", "a", "s", "c", "a", "l", "_", "c", "a", "s", "e", "d", "_", "s", "t", "r", "i", "n", "g", "_", "t", "x", "t">>>>,
   <<<<"t", "e", "s", "t", "C", "a", "m", "e", "l", "C", "a", "s", "e", "d", "S", "t", "r", "i", "n", "g", "T", "X", "T">>,
     <<"t", "e", "s", "t", "_", "c", "a", "m", "e", "l", "_", "c", "a", "s", "e", "d", "_", "s", "t", "r", "i", "n", "g", "_", "t", "x", "t">>>>,
   <<<<"T", "X", "T", "T", "e", "s", "t", "P", "a", "s", "c", "a", "l", "C", "a", "s", "e", "d", "S", "t", "r", "i", "n", "g">>,
     <<"t", "x", "t", "_", "t", "e", "s", "t", "_", "p", "a", "s", "c", "a", "l", "_", "c", "a", "s", "e", "d", "_", "s", "t", "r", "i", "n", "g">>>>,
   <<<<"T", "e", "s", "t", "P", "a", "s", "c", "a", "l", "C", "a", "s", "e", "d", "T", "X", "S", "t", "r", "i", "n", "g">>,
     <<"t", "e", "s", "t", "_", "p", "a", "s", "c", "a", "l", "_", "c", "a", "s", "e", "d", "_", "t", "x", "_", "s", "t", "r", "i", "n", "g">>>>,
   <<<<"t", "e", "s", "t", "C", "a", "m", "e", "l", "C", "a", "s", "e", "d", "T", "X", "S", "t", "r", "i", "n", "g">>,
     <<"t", "e", "s", "t", "_", "c", "a", "m", "e", "l", "_", "c", "a", "s", "e", "d", "_", "t", "x", "_", "s", "t", "r", "i", "n", "g">>>>,
   <<<<"T", "e", "s", "t", "P", "a", "s", "c", "a", "l", "C", "a", "s", "e", "d", "S", "t", "r", "i", "n", "g", "T", "X">>,
     <<"t", "e", "s", "t", "_", "p", "a", "s", "c", "a", "l", "_", "c", "a", "s", "e", "d", "_", "s", "t", "r", "i", "n", "g", "_", "t", "x">>>>,
   <<<<"t", "e", "s", "t", "C", "a", "m", "e", "l", "C", "a", "s", "e", "d", "S", "t", "r", "i", "n", "g", "T", "X">>,
     <<"t", "e", "s", "t", "_", "c", "a", "m", "e", "l", "_", "c", "a", "s", "e", "d", "_", "s", "t", "r", "i", "n", "g", "_", "t", "x">>>>,
   <<<<"T", "X", "T", "e", "s", "t", "P", "a", "s", "c", "a", "l", "C", "a", "s", "e", "d", "S", "t", "r", "i", "n", "g">>,
     <<"t", "x", "_", "t", "e", "s", "t", "_", "p", "a", "s", "c", "a", "l", "_", "c", "a", "s", "e", "d", "_", "s", "t", "r", "i", "n", "g">>>>,
   <<<<"T", "e", "s", "t", "P", "a", "s", "c", "a", "l", "C", "a", "s", "e", "d", "T", "S", "t", "r", "i", "n", "g">>,
     <<"t", "e", "s", "t", "_", "p", "a", "s", "c", "a", "l", "_", "c", "a", "s", "e", "d", "_", "t", "_", "s", "t", "r", "i", "n", "g">>>>,
   <<<<"t", "e", "s", "t", "C", "a", "m", "e", "l", "C", "a", "s", "e", "d", "T", "S", "t", "r", "i", "n", "g">>,
     <<"t", "e", "s", "t", "_", "c", "a", "m", "e", "l", "_", "c", "a", "s", "e", "d", "_", "t", "_", "s", "t", "r", "i", "n", "g">>>>,
   <<<<"T", "e", "s", "t", "P", "a", "s", "c", "a", "l", "C", "a", "s", "e", "d", "S", "t", "r", "i", "n", "g", "T">>,
     <<"t", "e", "s", "t", "_", "p", "a", "s", "c", "a", "l", "_", "c", "a", "s", "e", "d", "_", "s", "t", "r", "i", "n", "g", "_", "t">>>>,
   <<<<"t", "e", "s", "t", "C", "a", "m", "e", "l", "C", "a", "s", "e", "d", "S", "t", "r", "i", "n", "g", "T">>,
     <<"t", "e", "s", "t", "_", "c", "a", "m", "e", "l", "_", "c", "a", "s", "e", "d", "_", "s", "t", "r", "i", "n", "g", "_", "t">>>>,
   <<<<"T", "T", "e", "s", "t", "P", "a", "s", "c", "a", "l", "C", "a", "s", "e", "d", "S", "t", "r", "i", "n", "g">>,
     <<"t", "_", "t", "e", "s", "t", "_", "p", "a", "s", "c", "a", "l", "_", "c", "a", "s", "e", "d", "_", "s", "t", "r", "i", "n", "g">>>>,
   <<<<"T", "X", "T">>,
     <<"t", "x", "t">>>>,
   <<<<"A", " ", "B", " ", "C">>,
     <<"a", "_", "b", "_", "c">>>>>>

(***************************************************************************)
(* Components on their own: an input is drawn, the component is applied to *)
(* it once, and what it returns or throws is kept.                         *)
(***************************************************************************)
InitUnit(units) ==
  /\ pc = "unit"
  /\ commandLineArguments \in CommandLines
  /\ commandLineArguments.refreshRate = 60
  /\ data = NoData
  /\ png = NoPng
  /\ frames = <<>>
  /\ tags = <<>>
  /\ header = NoText
  /\ source = NoText
  /\ files = [h |-> NotWritten, c |-> NotWritten]
  /\ temporaryDirectory = "absent"
  /\ err = NoError
  /\ trace = <<>>
  /\ unit \in units
  /\ result = NotRun

returnUnit(r) ==
  /\ result' = r
  /\ pc' = "returned"
  /\ UNCHANGED <<commandLineArguments, data, png, frames, tags, header, source,
                 files, temporaryDirectory, err, trace, unit>>

\* The frame deriver alone.
FrameWidths == {0, 1, WidthLimit, WidthLimit + 1}

FrameHeights == {1, HeightLimit, HeightLimit + 1}

\* spriteSourceSize's coordinate and sourceSize's extent, along one axis.
OffsetPairs ==
  {<<0, 0>>, <<0, 1>>, <<1, 4>>,
   <<OffsetUpperLimit, 0>>, <<OffsetUpperLimit + 1, 1>>, <<OffsetUpperLimit + 1, 0>>,
   <<0, -2 * OffsetLowerLimit>>, <<0, 1 - 2 * OffsetLowerLimit>>}

Durations == {0, 1, 50, 51, 100, 65535}

RefreshRates == {1, 30, 60, 1000}

FrameUnits ==
  {[component |-> "frame",
    frame |-> RawFrame(0, 0, w, h, ox[1], oy[1], ox[2], oy[2], d),
    index |-> 0,
    sheet |-> [width |-> 1, height |-> 1, data |-> <<10, 20, 30, 0>>],
    refreshRate |-> r] :
     w \in FrameWidths, h \in FrameHeights, ox \in OffsetPairs, oy \in OffsetPairs,
     d \in Durations, r \in RefreshRates}

DeriveOneFrame ==
  /\ pc = "unit"
  /\ unit.component = "frame"
  /\ returnUnit(deriveFrame(unit.frame, unit.index, unit.sheet, unit.refreshRate))

SpecFrame == InitUnit(FrameUnits) /\ [][DeriveOneFrame]_vars

\* The tag expander alone, over frames of which only the duration matters.
TickChoices == {1, 32767, 32768, 65535}

DerivedOfTicks(ticks) ==
  [width |-> 1, height |-> 1, xOffset2 |-> 0, yOffset2 |-> 0, duration |-> ticks,
   rgba |-> <<10, 20, 30, 0>>]

TagUnits ==
  {[component |-> "tag",
    tag |-> RawTag(<<"t">>, from, to, direction),
    frames |-> [i \in 1..(MaxIndex + 1) |-> DerivedOfTicks(ticks[i])]] :
     from \in 0..MaxIndex, to \in 0..MaxIndex,
     direction \in {"forward", "reverse", "pingpong", "pingpong_reverse"},
     ticks \in [1..(MaxIndex + 1) -> TickChoices]}

ExpandOneTag ==
  /\ pc = "unit"
  /\ unit.component = "tag"
  /\ returnUnit(expandTag(unit.tag, unit.frames))

SpecTag == InitUnit(TagUnits) /\ [][ExpandOneTag]_vars

\* The identifier normaliser alone: every text of up to MaxLen characters over
\* an alphabet with each kind of character in it, and the inputs of the tests.
IdentifierAlphabet == {"a", "A", "1", "_", "-", " ", "."}

IdentifierUnits ==
  {[component |-> "identifier", text |-> t] :
     t \in SeqsUpTo(IdentifierAlphabet, MaxLen) \cup {scenarios[i][1] : i \in 1..Len(scenarios)}}

NormaliseOne ==
  /\ pc = "unit"
  /\ unit.component = "identifier"
  /\ returnUnit(Returned(convertFileNameToIdentifier(unit.text)))

SpecIdentifier == InitUnit(IdentifierUnits) /\ [][NormaliseOne]_vars

(***************************************************************************)
(* Properties of the tag expander.                                         *)
(***************************************************************************)
forwardReference(from, to) == [i \in 1..(to - from + 1) |-> from + i - 1]

reverseReference(from, to) == [i \in 1..(to - from + 1) |-> to - i + 1]

pingpongReference(from, to) ==
  [i \in 1..(2 * (to - from)) |->
     IF i <= to - from THEN from + i - 1 ELSE to - (i - (to - from) - 1)]

referenceIndices(direction, from, to) ==
  CASE direction = "forward" -> forwardReference(from, to)
    [] direction = "reverse" -> reverseReference(from, to)
    [] direction = "pingpong" -> pingpongReference(from, to)

tagReturned ==
  /\ pc = "returned"
  /\ unit.component = "tag"
  /\ implementedDirection(unit.tag.direction)

\* C1: for every tag with from <= to, the index sequence the tag expander builds
\* is the reference for its direction: forward from..to ascending, reverse
\* to..from descending, pingpong from..to-1 ascending then to..from+1
\* descending; from = 2, to = 5 gives [2,3,4,5], [5,4,3,2] and [2,3,4,5,4,3].
C1_IndexSequences ==
  /\ tagIndices(RawTag(<<"t">>, 2, 5, "forward")) = <<2, 3, 4, 5>>
  /\ tagIndices(RawTag(<<"t">>, 2, 5, "reverse")) = <<5, 4, 3, 2>>
  /\ tagIndices(RawTag(<<"t">>, 2, 5, "pingpong")) = <<2, 3, 4, 5, 4, 3>>
  /\ (tagReturned /\ unit.tag.from <= unit.tag.to) =>
       /\ tagIndices(unit.tag) =
            referenceIndices(unit.tag.direction, unit.tag.from, unit.tag.to)
       /\ result.ok =>
            result.value.indices =
              referenceIndices(unit.tag.direction, unit.tag.from, unit.tag.to)

\* A pingpong tag over three frames has been expanded to 0, 1, 2, 1.
C1_Witness ==
  /\ tagReturned
  /\ unit.tag.direction = "pingpong"
  /\ unit.tag.from = 0
  /\ unit.tag.to = 2
  /\ result.ok
  /\ result.value.indices = <<0, 1, 2, 1>>

\* How often the frame with the zero-based number f occurs in indices.
occurrences(indices, f) == Cardinality({i \in 1..Len(indices) : indices[i] = f})

RECURSIVE weightedTicks(_, _, _)
\* The sum over the frames from the zero-based f on of occurrences * durationTicks.
weightedTicks(indices, derived, f) ==
  IF f >= Len(derived) THEN 0
  ELSE occurrences(indices, f) * derived[f + 1].duration
         + weightedTicks(indices, derived, f + 1)

\* C2: a tag's total duration is the sum of the ticks of every occurrence of an
\* index in its expanded sequence (a frame visited twice counts twice); the tag
\* is refused with TagDurationLimitExceeded, naming the tag and that total,
\* exactly when the total is greater than 65535.
C2_TagDuration ==
  tagReturned =>
    LET expanded == IF unit.tag.from <= unit.tag.to
                      THEN referenceIndices(unit.tag.direction, unit.tag.from, unit.tag.to)
                      ELSE <<>>
        total == weightedTicks(expanded, unit.frames, 0)
    IN /\ result.ok <=> total <= 65535
       /\ result.ok => result.value.duration = total
       /\ ~result.ok =>
            /\ result.error.kind = "TagDurationLimitExceeded"
            /\ result.error.subject = unit.tag.name
            /\ result.error.value = total

\* A tag of two or more indices whose total is exactly 65535 has been accepted.
C2_Witness ==
  /\ tagReturned
  /\ result.ok
  /\ Len(result.value.indices) >= 2
  /\ result.value.duration = 65535

(***************************************************************************)
(* Properties of the frame deriver.                                        *)
(***************************************************************************)
frameReturned == pc = "returned" /\ unit.component = "frame"

\* Twice an offset, from the raw frame.
twiceX(raw) == 2 * raw.spriteSourceSize.x - raw.sourceSize.w

twiceY(raw) == 2 * raw.spriteSourceSize.y - raw.sourceSize.h

geometryWithinLimits(raw) ==
  /\ raw.frame.w <= 65535
  /\ raw.frame.h <= 65535
  /\ twiceX(raw) \in (2 * (-32768))..(2 * 32767)
  /\ twiceY(raw) \in (2 * (-32768))..(2 * 32767)

\* What the duration claim says of a frame that has been through the deriver.
durationContract(raw, refreshRate, r) ==
  /\ (~r.ok /\ r.error.kind = "DurationIncompatible")
       <=> (raw.duration * refreshRate) % 1000 # 0
  /\ r.ok =>
       /\ r.value.duration * 1000 = raw.duration * refreshRate
       /\ (r.value.duration * 1000) % refreshRate = 0
       /\ (r.value.duration * 1000) \div refreshRate = raw.duration

\* C3 as stated: every frame, whatever its geometry, is refused with
\* DurationIncompatible exactly when (D * R) mod 1000 is not 0, and otherwise
\* has D * R / 1000 ticks, from which D is recovered exactly.
C3_AsStated ==
  frameReturned => durationContract(unit.frame, unit.refreshRate, result)

\* C3, amended: every frame whose width, height and offsets are within their
\* limits is refused with DurationIncompatible exactly when (D * R) mod 1000 is
\* not 0, and otherwise has D * R / 1000 ticks, an integer from which
\* ticks * 1000 / R recovers D exactly.
C3_DurationQuantised ==
  (frameReturned /\ geometryWithinLimits(unit.frame)) =>
    durationContract(unit.frame, unit.refreshRate, result)

\* A frame of 50 milliseconds at 60 hertz has been given 3 ticks.
C3_Witness ==
  /\ frameReturned
  /\ unit.frame.duration = 50
  /\ unit.refreshRate = 60
  /\ result.ok
  /\ result.value.duration = 3

rawFrameViolates(i) == ~geometryWithinLimits(data.frames[i])

derivedFromRaw(i) ==
  /\ frames[i].width = data.frames[i].frame.w
  /\ frames[i].height = data.frames[i].frame.h
  /\ frames[i].xOffset2 = twiceX(data.frames[i])
  /\ frames[i].yOffset2 = twiceY(data.frames[i])

\* Whether frame derivation gets as far as the checks of the raw frame i: the
\* map has started and no earlier frame was refused.
derivationReaches(i) ==
  /\ "frames" \in Range(trace)
  /\ \A j \in 1..(i - 1) :
       /\ geometryWithinLimits(data.frames[j])
       /\ (data.frames[j].duration * commandLineArguments.refreshRate) % 1000 = 0

\* A frame past a limit makes the run fail, and with GeometryLimitExceeded for
\* that frame when frame derivation reaches it.
limitsEnforced ==
  pc = "done" =>
    \A i \in 1..Len(data.frames) :
      rawFrameViolates(i) =>
        /\ err # NoError
        /\ derivationReaches(i) =>
             err.kind = "GeometryLimitExceeded" /\ err.subject = i

\* C4: in a run that succeeds every derived frame has a width and a height of at
\* most 65535 and offsets spriteSourceSize - sourceSize / 2 that are signed
\* 16-bit values, integers in [-32768, 32767]; a frame past one of these limits
\* makes the run fail with GeometryLimitExceeded.
C4_AsStated ==
  /\ (pc = "done" /\ err = NoError) =>
       \A i \in 1..Len(frames) :
         /\ derivedFromRaw(i)
         /\ frames[i].width <= 65535
         /\ frames[i].height <= 65535
         /\ frames[i].xOffset2 % 2 = 0
         /\ frames[i].yOffset2 % 2 = 0
         /\ (frames[i].xOffset2 \div 2) \in -32768..32767
         /\ (frames[i].yOffset2 \div 2) \in -32768..32767
  /\ limitsEnforced

\* The part of C4 that holds: the same with offsets that are whole or half
\* numbers in [-32768, 32767], half when sourceSize is odd.
GeometryLimitsInHalves ==
  /\ \A i \in 1..Len(frames) :
       /\ derivedFromRaw(i)
       /\ frames[i].width <= 65535
       /\ frames[i].height <= 65535
       /\ 2 * (-32768) <= frames[i].xOffset2 /\ frames[i].xOffset2 <= 2 * 32767
       /\ 2 * (-32768) <= frames[i].yOffset2 /\ frames[i].yOffset2 <= 2 * 32767
  /\ limitsEnforced

\* A run has succeeded with a frame whose width and offsets are at their limits.
GeometryAtLimitsReached ==
  /\ pc = "done"
  /\ err = NoError
  /\ files.c # NotWritten
  /\ \E i \in 1..Len(frames) :
       /\ frames[i].width = 65535
       /\ frames[i].xOffset2 = 2 * 32767
       /\ frames[i].yOffset2 = 2 * (-32768)

\* The byte the pixel data is said to hold at the zero-based position k.
claimedByte(raw, sheet, k) ==
  LET x == (k \div 4) % raw.frame.w
      y == (k \div 4) \div raw.frame.w
      at == ((raw.frame.y + y) * sheet.width + raw.frame.x + x) * 4
  IN IF k % 4 = 3 THEN 255 - sheet.data[at + 4]
     ELSE (sheet.data[at + (k % 4) + 1] * sheet.data[at + 4]) \div 255

claimedPixels(raw, sheet, bytes) ==
  /\ Len(bytes) = raw.frame.w * raw.frame.h * 4
  /\ \A k \in 0..(Len(bytes) - 1) : bytes[k + 1] = claimedByte(raw, sheet, k)

\* C5: the pixel data emitted for a frame has width * height * 4 bytes, row by
\* row over the frame's rectangle in the sheet, each pixel holding
\* floor(R * alpha / 255), floor(G * alpha / 255), floor(B * alpha / 255) and
\* 255 - alpha of the sheet's pixel.
C5_PremultipliedPixels ==
  files.c # NotWritten =>
    \A i \in 1..Len(data.frames) :
      claimedPixels(data.frames[i], png, files.c.text.rgba[i])

\* The buffer the pixel loops fill, which is not what is emitted: whether it
\* holds the claimed bytes for every frame that lies within the sheet.
LocalBufferAsClaimed ==
  png # NoPng =>
    \A i \in 1..Len(data.frames) :
      (data.frames[i].frame.w * data.frames[i].frame.h <= png.width * png.height) =>
        claimedPixels(data.frames[i], png, rgbaBuffer(data.frames[i], png))

(***************************************************************************)
(* Properties of the run.                                                  *)
(***************************************************************************)
\* C6: a run that fails before the writes (spawn or exit failure, unreadable or
\* empty data file, PNG error, a frame, frame count, tag or direction error,
\* mkdir) leaves both output files unwritten; a file is written only after the
\* frames are derived, the tags expanded and both texts complete, and holds the
\* text emitted.
C6_NoPartialOutput ==
  /\ err.kind \notin {"none", "WriteError"} =>
       files.h = NotWritten /\ files.c = NotWritten
  /\ (files.h # NotWritten \/ files.c # NotWritten) =>
       /\ {"frames", "tags", "emit"} \subseteq Range(trace)
       /\ header # NoText
       /\ source # NoText
       /\ files.h.text = header
  /\ files.c # NotWritten => files.h # NotWritten /\ files.c.text = source

\* A run has ended on a tag longer than the limit, with nothing written.
C6_Witness ==
  /\ pc = "done"
  /\ err.kind = "TagDurationLimitExceeded"
  /\ files.h = NotWritten
  /\ files.c = NotWritten

\* C7: every resolved tag has at least one index, whatever the direction, when
\* its raw tag has from <= to (from = to included); stated of the tags of a run
\* that succeeded, whose from and to are frames of the sprite.
C7_IndicesNonEmpty ==
  (pc = "done" /\ err = NoError) =>
    \A i \in 1..Len(tags) :
      (/\ data.meta.frameTags[i].from <= data.meta.frameTags[i].to
       /\ data.meta.frameTags[i].to < Len(frames)) =>
        Len(tags[i].indices) >= 1

(***************************************************************************)
(* Properties of the identifier normaliser.                                *)
(***************************************************************************)
identifierReturned == pc = "returned" /\ unit.component = "identifier"

\* C8: normalising an identifier the normaliser has returned gives it back
\* unchanged.
C8_Idempotent ==
  identifierReturned => convertFileNameToIdentifier(result.value) = result.value

\* A text the normaliser changes, camelCase "aA", has been normalised to "a_a".
C8_Witness ==
  /\ identifierReturned
  /\ unit.text = <<"a", "A">>
  /\ result.value = <<"a", "_", "a">>

IdentifierCharacters == Range(LowercaseLetters) \cup DigitCharacters

\* No underscore first or last, no two in a row.
underscoresSingle(identifier) ==
  /\ identifier # <<>> =>
       identifier[1] # "_" /\ identifier[Len(identifier)] # "_"
  /\ \A i \in 1..(Len(identifier) - 1) :
       ~(identifier[i] = "_" /\ identifier[i + 1] = "_")

\* C9: for every input text the identifier is empty or made of non-empty words
\* over [a-z0-9] joined by single underscores: no underscore first or last, no
\* two in a row, no uppercase letter, whitespace or hyphen.
C9_WellFormed ==
  identifierReturned =>
    /\ \A i \in 1..Len(result.value) :
         result.value[i] \in IdentifierCharacters \cup {"_"}
    /\ underscoresSingle(result.value)

\* The part of C9 that holds for every text: single underscores, and no
\* uppercase letter, whitespace or hyphen.
IdentifierShape ==
  identifierReturned =>
    /\ underscoresSingle(result.value)
    /\ \A i \in 1..Len(result.value) :
         /\ ~isUppercase(result.value[i])
         /\ result.value[i] \notin SeparatorCharacters \ {"_"}

\* Whether the rules put a word boundary before text[i].
boundaryAt(text, i) ==
  /\ i > 1
  /\ isUppercase(text[i])
  /\ \/ isLowercase(text[i - 1])
     \/ /\ isUppercase(text[i - 1])
        /\ i < Len(text)
        /\ isLowercase(text[i + 1])

RECURSIVE withBoundaries(_, _)
\* The text from its character i on, lowered, with an underscore at each boundary.
withBoundaries(text, i) ==
  IF i > Len(text) THEN <<>>
  ELSE (IF boundaryAt(text, i) THEN <<"_">> ELSE <<>>)
         \o <<toLowerCase(text[i])>> \o withBoundaries(text, i + 1)

separatorFree(text) == \A i \in 1..Len(text) : ~isSeparator(text[i])

\* C10: within a text free of separators a word boundary is placed exactly
\* before an uppercase letter that follows a lowercase letter, and before an
\* uppercase letter that follows an uppercase letter and precedes a lowercase
\* one; and every input of the test table, "TestPascalCasedTXTString",
\* "TXTestPascalCasedString" and "TXT" among them, gives the identifier the
\* table expects.
C10_Boundaries ==
  identifierReturned =>
    /\ separatorFree(unit.text) => result.value = withBoundaries(unit.text, 1)
    /\ \A i \in 1..Len(scenarios) :
         unit.text = scenarios[i][1] => result.value = scenarios[i][2]

\* "TestPascalCasedTXTString" has been normalised to
\* "test_pascal_cased_txt_string".
C10_Witness ==
  /\ identifierReturned
  /\ unit.text = <<"T", "e", "s", "t", "P", "a", "s", "c", "a", "l", "C", "a", "s", "e", "d", "T", "X", "T", "S", "t", "r", "i", "n", "g">>
  /\ result.value = <<"t", "e", "s", "t", "_", "p", "a", "s", "c", "a", "l", "_", "c", "a", "s", "e", "d", "_", "t", "x", "t", "_", "s", "t", "r", "i", "n", "g">>

(***************************************************************************)
(* Properties of the emitted texts.                                        *)
(***************************************************************************)
runSucceeded == pc = "done" /\ err = NoError

indicesSuffix == <<"_", "i", "n", "d", "i", "c", "e", "s">>

\* C11: every tag symbol declared in the header and defined in the source (the
\* animation struct and its _indices array) is named by the normalised
\* identifier of the tag's name; stated of the files of a run that succeeded.
C11_TagSymbolsNormalised ==
  runSucceeded =>
    \A i \in 1..Len(data.meta.frameTags) :
      LET identifier == convertFileNameToIdentifier(data.meta.frameTags[i].name)
      IN /\ files.h.text.animations[i] = identifier
         /\ files.c.text.animations[i].symbol = identifier
         /\ files.c.text.animations[i].indices = identifier \o indicesSuffix
         /\ files.c.text.indices[i].symbol = identifier \o indicesSuffix

\* The sprite's own symbol is the normalised name of the aseprite file, in both
\* files.
SpriteSymbolNormalised ==
  runSucceeded =>
    LET identifier ==
          convertFileNameToIdentifier(commandLineArguments.asepriteFile.name)
    IN /\ files.h.text.sprite = identifier
       /\ files.c.text.sprite = identifier

\* C12: the source file's #include names the header file written by the same
\* run, the file name of <output>.h, whatever the aseprite file and the output
\* path are.
C12_IncludeNamesHeader ==
  runSucceeded => files.c.text.include = basename(files.h.path)

\* When the output's file name is the aseprite file's, the #include does name
\* the header written.
IncludeNamesHeaderWhenNamesAgree ==
  (runSucceeded /\ basename(commandLineArguments.output)
                     = basename(commandLineArguments.asepriteFile)) =>
    files.c.text.include = basename(files.h.path)

(***************************************************************************)
(* Properties of the order of errors and of steps.                         *)
(***************************************************************************)
stepTaken(step) == \E k \in 1..Len(trace) : trace[k] = step

perFrameChecks == <<"width", "height", "x offset", "y offset", "duration">>

checkViolated(raw, refreshRate, check) ==
  CASE check = "width" -> raw.frame.w > WidthLimit
    [] check = "height" -> raw.frame.h > HeightLimit
    [] check = "x offset" ->
         twiceX(raw) > 2 * OffsetUpperLimit \/ twiceX(raw) < 2 * OffsetLowerLimit
    [] check = "y offset" ->
         twiceY(raw) > 2 * OffsetUpperLimit \/ twiceY(raw) < 2 * OffsetLowerLimit
    [] check = "duration" -> (raw.duration * refreshRate) % MillisecondsPerSecond # 0

violatedChecks(raw, refreshRate) ==
  {k \in 1..Len(perFrameChecks) : checkViolated(raw, refreshRate, perFrameChecks[k])}

violatingFrames ==
  {i \in 1..Len(data.frames) :
     violatedChecks(data.frames[i], commandLineArguments.refreshRate) # {}}

least(S) == CHOOSE n \in S : \A m \in S : n <= m

offendingValue(raw, check) ==
  CASE check = "width" -> raw.frame.w
    [] check = "height" -> raw.frame.h
    [] check = "x offset" -> twiceX(raw)
    [] check = "y offset" -> twiceY(raw)
    [] check = "duration" -> raw.duration

\* The error the ordering calls for: of the lowest-numbered violating frame,
\* its first violated check, with the frame's one-based number.
expectedFrameError ==
  LET i == least(violatingFrames)
      raw == data.frames[i]
      check == perFrameChecks[least(violatedChecks(raw, commandLineArguments.refreshRate))]
  IN Thrown(IF check = "duration" THEN "DurationIncompatible" ELSE "GeometryLimitExceeded",
            check, i, offendingValue(raw, check))

\* C13: once the frames have been gone through, if any frame violates a
\* per-frame check the run has failed with the error of the lowest-numbered
\* violating frame, for the first of width, height, x offset, y offset and
\* duration that it violates, reported with the frame's one-based number; no
\* tag error or frame-count error takes its place, and the run goes no further.
C13_ErrorOrder ==
  (stepTaken("frames") /\ violatingFrames # {}) =>
    /\ err = expectedFrameError
    /\ pc \in {"finally", "done"}
    /\ ~stepTaken("tags")

\* Two frames violate, the first of them in several checks, and the data file
\* holds a tag that would be refused had the tags been expanded.
C13_Witness ==
  /\ stepTaken("frames")
  /\ Cardinality(violatingFrames) >= 2
  /\ Cardinality(violatedChecks(data.frames[least(violatingFrames)],
                                commandLineArguments.refreshRate)) >= 2
  /\ \E i \in 1..Len(data.meta.frameTags) :
       ~implementedDirection(data.meta.frameTags[i].direction)
  /\ err.subject = 1
  /\ err.what = "height"

\* The steps taken so far are the first steps, in the order of the callback.
stepsInOrder(steps) == Len(trace) >= Len(steps) /\ SubSeq(trace, 1, Len(steps)) = steps

\* C14: the frames are derived only once aseprite has closed, the data file has
\* been read as a document and the sheet has been parsed; the tags are expanded
\* only once every frame has been derived; and the first file is written only
\* once the whole header text and the whole source text exist.
C14_StepOrder ==
  /\ (pc = "frames" \/ stepTaken("frames")) =>
       /\ stepsInOrder(<<"spawn", "close", "readFile", "parsePng">>)
       /\ temporaryDirectory # "absent"
       /\ data \in DataFiles
       /\ png \in Sheets
  /\ (pc = "tags" \/ stepTaken("tags")) =>
       /\ stepsInOrder(<<"spawn", "close", "readFile", "parsePng", "frames">>)
       /\ Len(frames) = Len(data.frames)
       /\ Returned(frames) = deriveFrames(data.frames, png, commandLineArguments.refreshRate)
  /\ (pc = "writeHeader" \/ stepTaken("writeHeader") \/ files.h # NotWritten
        \/ files.c # NotWritten) =>
       /\ stepsInOrder(<<"spawn", "close", "readFile", "parsePng", "frames", "tags",
                         "emit", "mkdir">>)
       /\ Returned(tags) = expandTags(data.meta.frameTags, frames)
       /\ header = headerText(commandLineArguments, frames, tags)
       /\ source = sourceText(commandLineArguments, frames, tags)

\* A run that went through every step, with two frames and a tag.
C14_Witness ==
  /\ pc = "done"
  /\ trace = <<"spawn", "close", "readFile", "parsePng", "frames", "tags", "emit",
               "mkdir", "writeHeader", "writeSource", "rm">>
  /\ Len(frames) = 2
  /\ Len(tags) = 1
  /\ files.h # NotWritten
  /\ files.c # NotWritten

(***************************************************************************)
(* Properties of the emitted arrays.                                       *)
(***************************************************************************)
\* C15: in a run that succeeded, every index of every tag's _indices array in
\* the source file is the index of a frame the file defines: at least 0 and
\* less than the number of frames.
C15_IndicesInRange ==
  runSucceeded =>
    \A i \in 1..Len(files.c.text.indices) :
      /\ files.c.text.indices[i].length = Len(files.c.text.indices[i].values)
      /\ \A k \in 1..Len(files.c.text.indices[i].values) :
           /\ files.c.text.indices[i].values[k] >= 0
           /\ files.c.text.indices[i].values[k] < files.c.text.frameCount

\* A run that succeeded with a tag that goes up to the last frame and back.
C15_Witness ==
  /\ runSucceeded
  /\ files.c.text.frameCount = 2
  /\ \E i \in 1..Len(files.c.text.indices) :
       /\ data.meta.frameTags[i].to = files.c.text.frameCount - 1
       /\ files.c.text.indices[i].values = <<0, 1>>

\* A tag that reaches past the last frame is refused when its durations are
\* summed: the run fails at the tags and writes no file.
TagPastLastFrameRefused ==
  (stepTaken("tags") /\
     \E i \in 1..Len(data.meta.frameTags) :
       /\ implementedDirection(data.meta.frameTags[i].direction)
       /\ data.meta.frameTags[i].from <= data.meta.frameTags[i].to
       /\ data.meta.frameTags[i].to >= Len(frames)
       /\ (data.meta.frameTags[i].direction = "pingpong" =>
             data.meta.frameTags[i].from < data.meta.frameTags[i].to)
       /\ \A j \in 1..(i - 1) : expandTag(data.meta.frameTags[j], frames).ok) =>
    /\ err.kind = "TypeError"
    /\ files.h = NotWritten
    /\ files.c = NotWritten

\* The greatest value of a u16_t.
UnsignedShortMax == 2^16 - 1

\* C16: in a run that succeeded, every duration of the source file's u16_t
\* _durations array is an integer from 0 to 65535, whatever the refresh rate
\* and whether or not a tag holds the frame.
C16_DurationsFit ==
  runSucceeded =>
    \A i \in 1..Len(files.c.text.durations) :
      files.c.text.durations[i] \in 0..UnsignedShortMax

\* Up to 1000 hertz a frame's ticks are no more than its milliseconds, so
\* durations of at most 65535 milliseconds do fit.
DurationsFitUpToKilohertz ==
  (/\ runSucceeded
   /\ commandLineArguments.refreshRate <= MillisecondsPerSecond
   /\ \A i \in 1..Len(data.frames) : data.frames[i].duration \in 0..UnsignedShortMax) =>
    \A i \in 1..Len(files.c.text.durations) :
      files.c.text.durations[i] \in 0..UnsignedShortMax

(***************************************************************************)
(* Properties of the clean-up.                                             *)
(***************************************************************************)
removalLast ==
  /\ temporaryDirectory = "removed"
  /\ Len(trace) >= 2
  /\ trace[Len(trace)] = "rm"
  /\ \A k \in 1..(Len(trace) - 1) : trace[k] # "rm"

====
